---- MODULE Spec2Model ----
(***************************************************************************)
(* Model of the menstrual-cycle forecasting engine of the Cherry planner:  *)
(* CyclePredictionEngine (src/assets/js/main.js) and CycleAnalyzer         *)
(* (src/unnamed/part_006).                                                 *)
(*                                                                         *)
(* Numbers.  JavaScript numbers are modelled as exact rationals <<n, d>>   *)
(* in lowest terms (d > 0); Math.sqrt only ever occurs under a rounding or *)
(* a comparison, which are decided exactly on integers.  Dates are counted *)
(* in TICKS_PER_DAY-ths of a day since an epoch at local midnight of       *)
(* 1 January, in a time zone without daylight-saving transitions.          *)
(*                                                                         *)
(* The page's cycle tracker (src/assets/js/modules/cycle.js) is modelled   *)
(* next to the engine, with its own initial state and next-state relation: *)
(* the page never passes its log to the engine.                            *)
(***************************************************************************)
EXTENDS Integers, Sequences, FiniteSets, TLC

----------------------------------------------------------------------------
(* Bounds of the model.                                                    *)

\* records in a history of arbitrary records
MaxHistory == 3
\* cycles in a history used to exercise the statistics
MaxStats == 3
\* cycles in a history used to exercise the confidence score
MaxConf == 7
\* cycles in a history used to exercise the pattern detection
MaxPatterns == 8
\* ticks of the clock
MaxToday == 1
\* cycles in a history used to exercise the health score
MaxHealth == 4
\* cycles in a history used to exercise the trend of the recent cycles
MaxTrend == 7
\* cycles in a history used to exercise the insight and risk rules
MaxRisk == 2
\* largest variance tried for the health score, in quarters of a squared day
MaxVarianceQuarters == 80
\* largest cycle count tried for the health score
MaxCount == 12
\* days by which the luteal length is raised
MaxShift == 2

----------------------------------------------------------------------------
(* Exact arithmetic.                                                       *)

Abs(x) == IF x < 0 THEN -x ELSE x

RECURSIVE Gcd(_, _)
Gcd(a, b) == IF b = 0 THEN a ELSE Gcd(b, a % b)

\* the rational n/d in lowest terms, d > 0
Rat(n, d) ==
  LET s == IF d < 0 THEN -1 ELSE 1
      g == Gcd(Abs(n), Abs(d))
  IN  <<(s * n) \div g, (s * d) \div g>>

RInt(k) == <<k, 1>>
RAdd(x, y) == Rat(x[1] * y[2] + y[1] * x[2], x[2] * y[2])
RSub(x, y) == Rat(x[1] * y[2] - y[1] * x[2], x[2] * y[2])
RMul(x, y) == Rat(x[1] * y[1], x[2] * y[2])
RDiv(x, y) == Rat(x[1] * y[2], x[2] * y[1])
RLt(x, y) == x[1] * y[2] < y[1] * x[2]
RLe(x, y) == x[1] * y[2] <= y[1] * x[2]
RAbs(x) == <<Abs(x[1]), x[2]>>
RMax(x, y) == IF RLt(x, y) THEN y ELSE x
RMin(x, y) == IF RLt(y, x) THEN y ELSE x

\* Math.round: the nearest integer, halves towards +Infinity
MathRound(x) == (2 * x[1] + x[2]) \div (2 * x[2])

\* Math.round(x * 100) / 100
Round2(x) == Rat(MathRound(RMul(x, RInt(100))), 100)

RECURSIVE SumSeq(_)
SumSeq(s) == IF s = <<>> THEN 0 ELSE Head(s) + SumSeq(Tail(s))

RECURSIVE SumSq(_)
SumSq(s) == IF s = <<>> THEN 0 ELSE Head(s) * Head(s) + SumSq(Tail(s))

RECURSIVE MinSeq(_)
MinSeq(s) ==
  IF Len(s) = 1 THEN Head(s)
  ELSE LET m == MinSeq(Tail(s)) IN IF Head(s) < m THEN Head(s) ELSE m

RECURSIVE MaxSeq(_)
MaxSeq(s) ==
  IF Len(s) = 1 THEN Head(s)
  ELSE LET m == MaxSeq(Tail(s)) IN IF Head(s) > m THEN Head(s) ELSE m

\* floor(sqrt(n)) for 0 <= n, searched in lo..hi
RECURSIVE IntSqrtSearch(_, _, _)
IntSqrtSearch(n, lo, hi) ==
  IF lo >= hi THEN lo
  ELSE LET mid == (lo + hi + 1) \div 2
       IN  IF mid * mid <= n THEN IntSqrtSearch(n, mid, hi)
           ELSE IntSqrtSearch(n, lo, mid - 1)

IntSqrt(n) == IntSqrtSearch(n, 0, 46340)

\* floor(10^digits * sqrt(n)), one decimal digit at a time as in long-hand
\* extraction: root is floor(10^i * sqrt(n)) and rem is 100^i * n - root^2
RECURSIVE SqrtDigits(_, _, _)
SqrtDigits(root, rem, digits) ==
  IF digits = 0 THEN root
  ELSE LET d == CHOOSE e \in 0..9 :
                  /\ (20 * root + e) * e <= 100 * rem
                  /\ e < 9 => (20 * root + e + 1) * (e + 1) > 100 * rem
       IN  SqrtDigits(10 * root + d, 100 * rem - (20 * root + d) * d, digits - 1)

FloorScaledSqrt(n, digits) ==
  LET r == IntSqrt(n) IN SqrtDigits(r, n - r * r, digits)

\* Math.round(10^digits * Math.sqrt(n) / d) for integers n >= 0 and d > 0:
\* the largest k with (2k - 1) * d <= 10^digits * sqrt(4n)
RoundScaledSqrt(digits, n, d) == (FloorScaledSqrt(4 * n, digits) \div d + 1) \div 2

\* a > 2 * Math.sqrt(v), for rationals a >= 0 and v >= 0: a^2 > 4 v
ExceedsTwoSqrt(a, v) == RLt(RMul(RInt(4), v), RMul(a, a))

----------------------------------------------------------------------------
(* CyclePredictionEngine: constants set by the constructor.                *)

minCycleLength == 21
maxCycleLength == 35
defaultLutealLength == 14
defaultLength == 28

\* one day, in date ticks (the code's 24 * 60 * 60 * 1000 milliseconds)
TICKS_PER_DAY == 100

\* a JavaScript value that is absent or falsy (undefined, null, 0, '')
Absent == 0

\* How a call completes: with a value, or abruptly with the TypeError that
\* reading a property of undefined raises.
Normal(v) == [type |-> "normal", value |-> v]
TypeError == [type |-> "throw", value |-> "TypeError"]

\* new Date(cycle.start).getTime(), for a start given as a day number
DateOfDay(day) == day * TICKS_PER_DAY

\* base.getTime() + days * 24 * 60 * 60 * 1000, for a rational number of days
\* (every product the engine forms is a whole number of ticks)
AddDays(base, days) == base + (days[1] * TICKS_PER_DAY) \div days[2]

Lengths(cycles) == [i \in 1..Len(cycles) |-> cycles[i].length]

\* Array.prototype.sort with the comparator new Date(a.start) - new Date(b.start):
\* stable, ascending by start
RECURSIVE InsertByStart(_, _)
InsertByStart(sorted, c) ==
  IF sorted = <<>> THEN <<c>>
  ELSE IF DateOfDay(c.start) - DateOfDay(sorted[Len(sorted)].start) >= 0
       THEN Append(sorted, c)
       ELSE Append(InsertByStart(SubSeq(sorted, 1, Len(sorted) - 1), c),
                   sorted[Len(sorted)])

RECURSIVE SortByStart(_)
SortByStart(s) ==
  IF s = <<>> THEN <<>>
  ELSE InsertByStart(SortByStart(SubSeq(s, 1, Len(s) - 1)), s[Len(s)])

\* Array.prototype.slice(-k)
LastK(s, k) == IF Len(s) <= k THEN s ELSE SubSeq(s, Len(s) - k + 1, Len(s))

\* cleanCycleData without the final sort
cleanCycleData_unsorted(cycles) ==
  LET present(c) == c.start # Absent /\ c.length # Absent
      inRange(c) == c.length >= minCycleLength /\ c.length <= maxCycleLength
  IN  SelectSeq(SelectSeq(cycles, present), inRange)

\* cleanCycleData whose range filter forgets the upper limit
cleanCycleData_noUpperLimit(cycles) ==
  LET present(c) == c.start # Absent /\ c.length # Absent
      inRange(c) == c.length >= minCycleLength
  IN  SortByStart(SelectSeq(SelectSeq(cycles, present), inRange))

cleanCycleData(cycles) ==
  LET present(c) == c.start # Absent /\ c.length # Absent
      inRange(c) == c.length >= minCycleLength /\ c.length <= maxCycleLength
  IN  \* Array.prototype.filter is SelectSeq
      SortByStart(SelectSeq(SelectSeq(cycles, present), inRange))

\* The arrays cleanCycleData touches: the caller's array and the array that the
\* chain of calls is working on. Array.prototype.filter returns a new array and
\* leaves its receiver as it is; Array.prototype.sort sorts its receiver in
\* place and returns it.
SortedInPlace(arrays, receiver) ==
  [arrays EXCEPT ![receiver] = SortByStart(arrays[receiver]),
                 !.chained = SortByStart(arrays[receiver])]

\* cleanCycleData sorting before it filters: cycles.sort(...).filter(...).filter(...)
cleanCycleData_arrays_sortFirst(cycles) ==
  LET present(c) == c.start # Absent /\ c.length # Absent
      inRange(c) == c.length >= minCycleLength /\ c.length <= maxCycleLength
      passed == [caller |-> cycles, chained |-> cycles]
      sorted == SortedInPlace(passed, "caller")
      kept == [sorted EXCEPT !.chained = SelectSeq(sorted.chained, present)]
  IN  [kept EXCEPT !.chained = SelectSeq(kept.chained, inRange)]

\* cleanCycleData, with its effect on the array it is passed
cleanCycleData_arrays(cycles) ==
  LET present(c) == c.start # Absent /\ c.length # Absent
      inRange(c) == c.length >= minCycleLength /\ c.length <= maxCycleLength
      passed == [caller |-> cycles, chained |-> cycles]
      kept == [passed EXCEPT !.chained = SelectSeq(passed.caller, present)]
      valid == [kept EXCEPT !.chained = SelectSeq(kept.chained, inRange)]
  IN  SortedInPlace(valid, "chained")

\* the caller's array after analyzeCycles, which cleans any non-empty history
\* and otherwise only reads
cycleHistoryAfter(cycleHistory) ==
  IF Len(cycleHistory) = 0 THEN cycleHistory
  ELSE cleanCycleData_arrays(cycleHistory).caller

\* values.reduce((a, b) => a + b, 0) / values.length
Mean(values) == Rat(SumSeq(values), Len(values))

RECURSIVE SumSqDev(_, _)
SumSqDev(values, mean) ==
  IF values = <<>> THEN RInt(0)
  ELSE LET d == RSub(RInt(Head(values)), mean)
       IN  RAdd(RMul(d, d), SumSqDev(Tail(values), mean))

calculateVariance(values) ==
  RDiv(SumSqDev(values, Mean(values)), RInt(Len(values)))

calculateTrend(cycles) ==
  IF Len(cycles) < 4 THEN RInt(0)
  ELSE LET midpoint == Len(cycles) \div 2
           firstHalf == SubSeq(cycles, 1, midpoint)
           secondHalf == SubSeq(cycles, midpoint + 1, Len(cycles))
       IN  RSub(Mean(Lengths(secondHalf)), Mean(Lengths(firstHalf)))

assessDataQuality(cycles) ==
  IF Len(cycles) = 0 THEN "insufficient"
  ELSE IF Len(cycles) < 3 THEN "limited"
  ELSE IF Len(cycles) < 6 THEN "moderate"
  ELSE "good"

\* calculateStatistics that derives the irregularity score from the rounded
\* standard deviation and the rounded average
calculateStatistics_fromRounded(cycles) ==
  IF Len(cycles) = 0
  THEN [averageLength |-> RInt(28),
        standardDeviation |-> RInt(0),
        irregularityScore |-> RInt(0),
        totalCycles |-> 0,
        dataQuality |-> "insufficient"]
  ELSE LET lengths == Lengths(cycles)
           averageLength == Mean(lengths)
           variance == RDiv(SumSqDev(lengths, averageLength), RInt(Len(lengths)))
           n == Len(lengths)
           sumSqDevN == RMul(variance, RInt(n * n))[1]
           roundedAverage == Round2(averageLength)
           roundedDeviation == Rat(RoundScaledSqrt(2, sumSqDevN, n), 100)
       IN  [averageLength |-> roundedAverage,
            standardDeviation |-> roundedDeviation,
            irregularityScore |->
              Round2(RMul(RDiv(roundedDeviation, roundedAverage), RInt(100))),
            totalCycles |-> Len(cycles),
            shortest |-> MinSeq(lengths),
            longest |-> MaxSeq(lengths),
            trend |-> calculateTrend(cycles),
            dataQuality |-> assessDataQuality(cycles)]

calculateStatistics(cycles) ==
  IF Len(cycles) = 0
  THEN [averageLength |-> RInt(28),
        standardDeviation |-> RInt(0),
        irregularityScore |-> RInt(0),
        totalCycles |-> 0,
        dataQuality |-> "insufficient"]
  ELSE LET lengths == Lengths(cycles)
           averageLength == Mean(lengths)
           variance == RDiv(SumSqDev(lengths, averageLength), RInt(Len(lengths)))
           \* the square roots are taken of integers: with n = lengths.length,
           \* sqrt(variance) = sqrt(n^2 * variance) / n and
           \* sqrt(variance) / averageLength = sqrt(n^2 * variance) / (n * averageLength)
           n == Len(lengths)
           sumSqDevN == RMul(variance, RInt(n * n))[1]
           sum == RMul(averageLength, RInt(n))[1]
       IN  [averageLength |-> Round2(averageLength),
            \* Math.round(Math.sqrt(variance) * 100) / 100
            standardDeviation |-> Rat(RoundScaledSqrt(2, sumSqDevN, n), 100),
            \* Math.round((Math.sqrt(variance) / averageLength) * 100 * 100) / 100
            irregularityScore |-> Rat(RoundScaledSqrt(4, sumSqDevN, sum), 100),
            totalCycles |-> Len(cycles),
            shortest |-> MinSeq(lengths),
            longest |-> MaxSeq(lengths),
            trend |-> calculateTrend(cycles),
            dataQuality |-> assessDataQuality(cycles)]

RECURSIVE WeightedSum(_, _)
WeightedSum(cycles, weights) ==
  IF cycles = <<>> THEN RInt(0)
  ELSE RAdd(RMul(RInt(Head(cycles).length), Head(weights)),
            WeightedSum(Tail(cycles), Tail(weights)))

\* predictNextCycleStart with the largest weight on the newest of the three cycles
predictNextCycleStart_newestHeaviest(cycles, stats, settings) ==
  LET weights == <<Rat(2, 10), Rat(3, 10), Rat(5, 10)>>
      predictedLength ==
        IF settings.advancedEstimation /\ Len(cycles) >= 3
        THEN WeightedSum(LastK(cycles, 3), weights)
        ELSE stats.averageLength
  IN  IF Len(cycles) = 0 THEN TypeError
      ELSE Normal(AddDays(DateOfDay(cycles[Len(cycles)].start), predictedLength))

predictNextCycleStart(cycles, stats, settings) ==
  LET weights == <<Rat(5, 10), Rat(3, 10), Rat(2, 10)>>
      predictedLength ==
        IF settings.advancedEstimation /\ Len(cycles) >= 3
        THEN WeightedSum(LastK(cycles, 3), weights)
        ELSE stats.averageLength
  IN  \* lastCycle is undefined for an empty array: lastCycle.start throws
      IF Len(cycles) = 0 THEN TypeError
      ELSE Normal(AddDays(DateOfDay(cycles[Len(cycles)].start), predictedLength))

RECURSIVE SumXY(_, _)
SumXY(y, i) == IF y = <<>> THEN 0 ELSE i * Head(y) + SumXY(Tail(y), i + 1)

calculateRecentTrend(cycles) ==
  IF Len(cycles) < 3 THEN RInt(0)
  ELSE LET y == Lengths(cycles)
           n == Len(cycles)
           sumX == SumSeq([i \in 1..n |-> i - 1])
           sumY == SumSeq(y)
           sumXY == SumXY(y, 0)
           sumXX == SumSq([i \in 1..n |-> i - 1])
       IN  Rat(n * sumXY - sumX * sumY, n * sumXX - sumX * sumX)

\* predictCycleLength without the clamp to [minCycleLength, maxCycleLength]
predictCycleLength_unclamped(cycles, stats) ==
  IF Len(cycles) < 2 THEN stats.averageLength
  ELSE LET recentTrend == calculateRecentTrend(LastK(cycles, 6))
           adjustedLength == RAdd(stats.averageLength, recentTrend)
       IN  RInt(MathRound(adjustedLength))

predictCycleLength(cycles, stats) ==
  IF Len(cycles) < 2 THEN stats.averageLength
  ELSE LET recentTrend == calculateRecentTrend(LastK(cycles, 6))
           adjustedLength == RAdd(stats.averageLength, recentTrend)
           rounded == MathRound(adjustedLength)
           capped == IF maxCycleLength < rounded THEN maxCycleLength ELSE rounded
       IN  RInt(IF minCycleLength > capped THEN minCycleLength ELSE capped)

RECURSIVE Following(_, _, _)
Following(currentStart, stats, i) ==
  IF i >= 3 THEN <<>>
  ELSE LET next == AddDays(currentStart, stats.averageLength)
       IN  <<[startDate |-> next, estimatedLength |-> stats.averageLength]>>
           \o Following(next, stats, i + 1)

\* predictFollowing3Cycles pushing each start before advancing it: the first
\* entry is the predicted next start itself
predictFollowing3Cycles_fromNextStart(startDate, stats) ==
  Following(AddDays(startDate, RSub(RInt(0), stats.averageLength)), stats, 0)

predictFollowing3Cycles(startDate, stats) == Following(startDate, stats, 0)

\* settings.lutealLength || this.defaultLutealLength
LutealOf(settings) ==
  IF settings.lutealLength # Absent THEN settings.lutealLength ELSE defaultLutealLength

predictOvulation(cycleStart, stats, settings) ==
  LET ovulationDay == RSub(stats.averageLength, RInt(LutealOf(settings)))
  IN  AddDays(cycleStart, RSub(ovulationDay, RInt(1)))

\* predictLutealPhase with the default luteal length whatever the settings
predictLutealPhase_defaultLuteal(cycleStart, stats, settings) ==
  LET lutealStart == RAdd(RSub(stats.averageLength, RInt(defaultLutealLength)), RInt(1))
  IN  AddDays(cycleStart, RSub(lutealStart, RInt(1)))

predictLutealPhase(cycleStart, stats, settings) ==
  LET lutealStart == RAdd(RSub(stats.averageLength, RInt(LutealOf(settings))), RInt(1))
  IN  AddDays(cycleStart, RSub(lutealStart, RInt(1)))

generatePredictions(cycles, stats, settings) ==
  LET called == predictNextCycleStart(cycles, stats, settings)
      nextCycleStart == called.value
  IN  IF called.type = "throw" THEN called
      ELSE Normal(
           [nextCycle |->
              [startDate |-> nextCycleStart,
               estimatedLength |-> predictCycleLength(cycles, stats),
               endDate |-> AddDays(nextCycleStart, stats.averageLength)],
            following3Cycles |-> predictFollowing3Cycles(nextCycleStart, stats),
            ovulationDate |-> predictOvulation(nextCycleStart, stats, settings),
            lutealPhaseStart |-> predictLutealPhase(nextCycleStart, stats, settings)])

calculateFertilityScore(date, windowStart, windowEnd) ==
  LET totalDays == Rat(windowEnd - windowStart, TICKS_PER_DAY)
      dayInWindow == Rat(date - windowStart, TICKS_PER_DAY)
      peakDay == RMul(totalDays, Rat(5, 10))
      distance == RAbs(RSub(dayInWindow, peakDay))
  IN  RMax(Rat(2, 10), RSub(RInt(1), RDiv(distance, totalDays)))

RECURSIVE generateFertilePhaseFrom(_, _, _)
generateFertilePhaseFrom(current, windowStart, windowEnd) ==
  IF current <= windowEnd
  THEN <<[date |-> current,
          fertility |-> calculateFertilityScore(current, windowStart, windowEnd)]>>
       \o generateFertilePhaseFrom(current + TICKS_PER_DAY, windowStart, windowEnd)
  ELSE <<>>

generateFertilePhase(windowStart, windowEnd) ==
  generateFertilePhaseFrom(windowStart, windowStart, windowEnd)

\* calculateFertilityWindow with the window its comment describes, ovulation +- 5 days
calculateFertilityWindow_symmetric(nextCycle, settings) ==
  LET lutealLength == LutealOf(settings)
      ovulationDay == RSub(nextCycle.estimatedLength, RInt(lutealLength))
      ovulationDate == AddDays(nextCycle.startDate, RSub(ovulationDay, RInt(1)))
      windowStart == ovulationDate - 5 * TICKS_PER_DAY
      windowEnd == ovulationDate + 5 * TICKS_PER_DAY
  IN  [ovulationDate |-> ovulationDate,
       windowStart |-> windowStart,
       windowEnd |-> windowEnd,
       fertilePhase |-> generateFertilePhase(windowStart, windowEnd)]

calculateFertilityWindow(nextCycle, settings) ==
  LET lutealLength == LutealOf(settings)
      ovulationDay == RSub(nextCycle.estimatedLength, RInt(lutealLength))
      ovulationDate == AddDays(nextCycle.startDate, RSub(ovulationDay, RInt(1)))
      windowStart == ovulationDate - 5 * TICKS_PER_DAY
      windowEnd == ovulationDate + 1 * TICKS_PER_DAY
  IN  [ovulationDate |-> ovulationDate,
       windowStart |-> windowStart,
       windowEnd |-> windowEnd,
       fertilePhase |-> generateFertilePhase(windowStart, windowEnd)]

generateRecommendations(stats) ==
  (IF RLt(RInt(20), stats.irregularityScore)
   THEN <<[type |-> "health", priority |-> "high",
           message |-> "High cycle irregularity detected"]>>
   ELSE <<>>)
  \o (IF stats.totalCycles < 3
      THEN <<[type |-> "data", priority |-> "medium",
              message |-> "Track more cycles"]>>
      ELSE <<>>)
  \o (IF RLt(stats.averageLength, RInt(25)) \/ RLt(RInt(32), stats.averageLength)
      THEN <<[type |-> "health", priority |-> "medium",
              message |-> "Cycle length outside typical range"]>>
      ELSE <<>>)

\* calculateConfidence that still answers 0.7 for a sixth cycle
calculateConfidence_sixIsFew(cycles) ==
  IF Len(cycles) = 0 THEN RInt(0)
  ELSE IF Len(cycles) = 1 THEN Rat(3, 10)
  ELSE IF Len(cycles) = 2 THEN Rat(5, 10)
  ELSE IF Len(cycles) <= 6 THEN Rat(7, 10)
  ELSE LET lengths == Lengths(cycles)
           variance == calculateVariance(lengths)
           consistency == RMax(RInt(0), RSub(RInt(1), RDiv(variance, RInt(100))))
       IN  RMin(Rat(95, 100), RAdd(Rat(6, 10), RMul(consistency, Rat(35, 100))))

\* calculateConfidence that scales the variance by 10 instead of 100
calculateConfidence_perTen(cycles) ==
  IF Len(cycles) = 0 THEN RInt(0)
  ELSE IF Len(cycles) = 1 THEN Rat(3, 10)
  ELSE IF Len(cycles) = 2 THEN Rat(5, 10)
  ELSE IF Len(cycles) < 6 THEN Rat(7, 10)
  ELSE LET lengths == Lengths(cycles)
           variance == calculateVariance(lengths)
           consistency == RMax(RInt(0), RSub(RInt(1), RDiv(variance, RInt(10))))
       IN  RMin(Rat(95, 100), RAdd(Rat(6, 10), RMul(consistency, Rat(35, 100))))

calculateConfidence(cycles) ==
  IF Len(cycles) = 0 THEN RInt(0)
  ELSE IF Len(cycles) = 1 THEN Rat(3, 10)
  ELSE IF Len(cycles) = 2 THEN Rat(5, 10)
  ELSE IF Len(cycles) < 6 THEN Rat(7, 10)
  ELSE LET lengths == Lengths(cycles)
           variance == calculateVariance(lengths)
           consistency == RMax(RInt(0), RSub(RInt(1), RDiv(variance, RInt(100))))
       IN  RMin(Rat(95, 100), RAdd(Rat(6, 10), RMul(consistency, Rat(35, 100))))

\* getDefaultPrediction anchored at the epoch instead of the current time
getDefaultPrediction_fixedAnchor(settings, now) ==
  LET today == 0 IN
  [statistics |->
     [averageLength |-> RInt(defaultLength),
      standardDeviation |-> RInt(0),
      irregularityScore |-> RInt(0),
      totalCycles |-> 0,
      dataQuality |-> "insufficient"],
   predictions |->
     [nextCycle |->
        [startDate |-> today + defaultLength * TICKS_PER_DAY,
         estimatedLength |-> RInt(defaultLength),
         endDate |-> today + 2 * defaultLength * TICKS_PER_DAY],
      following3Cycles |-> <<>>,
      ovulationDate |-> today + (defaultLength - 14) * TICKS_PER_DAY,
      lutealPhaseStart |-> today + (defaultLength - 14 + 1) * TICKS_PER_DAY],
   fertilityWindow |->
     [ovulationDate |-> today + (defaultLength - 14) * TICKS_PER_DAY,
      windowStart |-> today + (defaultLength - 19) * TICKS_PER_DAY,
      windowEnd |-> today + (defaultLength - 13) * TICKS_PER_DAY,
      fertilePhase |-> <<>>],
   recommendations |->
     <<[type |-> "data", priority |-> "high",
        message |-> "Start tracking your cycles"]>>,
   confidence |-> RInt(0)]

getDefaultPrediction(settings, now) ==
  LET today == now IN
  [statistics |->
     [averageLength |-> RInt(defaultLength),
      standardDeviation |-> RInt(0),
      irregularityScore |-> RInt(0),
      totalCycles |-> 0,
      dataQuality |-> "insufficient"],
   predictions |->
     [nextCycle |->
        [startDate |-> today + defaultLength * TICKS_PER_DAY,
         estimatedLength |-> RInt(defaultLength),
         endDate |-> today + 2 * defaultLength * TICKS_PER_DAY],
      following3Cycles |-> <<>>,
      ovulationDate |-> today + (defaultLength - 14) * TICKS_PER_DAY,
      lutealPhaseStart |-> today + (defaultLength - 14 + 1) * TICKS_PER_DAY],
   fertilityWindow |->
     [ovulationDate |-> today + (defaultLength - 14) * TICKS_PER_DAY,
      windowStart |-> today + (defaultLength - 19) * TICKS_PER_DAY,
      windowEnd |-> today + (defaultLength - 13) * TICKS_PER_DAY,
      fertilePhase |-> <<>>],
   recommendations |->
     <<[type |-> "data", priority |-> "high",
        message |-> "Start tracking your cycles"]>>,
   confidence |-> RInt(0)]

\* analyzeCycles without the early return for an empty history
analyzeCycles_noEmptyCheck(cycleHistory, settings, now) ==
  LET cleanHistory == cleanCycleData(cycleHistory)
      stats == calculateStatistics(cleanHistory)
      called == generatePredictions(cleanHistory, stats, settings)
      predictions == called.value
  IN  IF called.type = "throw" THEN called
      ELSE Normal(
           [statistics |-> stats,
            predictions |-> predictions,
            fertilityWindow |->
              calculateFertilityWindow(predictions.nextCycle, settings),
            recommendations |-> generateRecommendations(stats),
            confidence |-> calculateConfidence(cleanHistory)])

analyzeCycles(cycleHistory, settings, now) ==
  IF Len(cycleHistory) = 0 THEN Normal(getDefaultPrediction(settings, now))
  ELSE LET cleanHistory == cleanCycleData(cycleHistory)
           stats == calculateStatistics(cleanHistory)
           called == generatePredictions(cleanHistory, stats, settings)
           predictions == called.value
       IN  IF called.type = "throw" THEN called
           ELSE Normal(
                [statistics |-> stats,
                 predictions |-> predictions,
                 fertilityWindow |->
                   calculateFertilityWindow(predictions.nextCycle, settings),
                 recommendations |-> generateRecommendations(stats),
                 confidence |-> calculateConfidence(cleanHistory)])

----------------------------------------------------------------------------
(* CycleAnalyzer.                                                          *)

veryShort == 21
short == 25
normalUpper == 32
veryLong == 38

\* JavaScript null
Null == [type |-> "null"]

\* new Date(cycle.start).getMonth(), 0 = January; the epoch is a 1 January and
\* the years the model reaches have 365 days
DAYS_PER_YEAR == 365

MonthEnds == <<31, 59, 90, 120, 151, 181, 212, 243, 273, 304, 334, 365>>

getMonth(day) ==
  LET dayOfYear == day % DAYS_PER_YEAR
  IN  (CHOOSE m \in 1..12 :
         /\ dayOfYear < MonthEnds[m]
         /\ \A k \in 1..(m - 1) : dayOfYear >= MonthEnds[k]) - 1

CycleAnalyzer_calculateVariance(values) ==
  IF Len(values) = 0 THEN RInt(0)
  ELSE RDiv(SumSqDev(values, Mean(values)), RInt(Len(values)))

\* generateHealthInsights warning of very long cycles from an average of 35 days
generateHealthInsights_longFrom35(cycles, symptoms) ==
  IF Len(cycles) = 0
  THEN <<[category |-> "tracking", severity |-> "info", title |-> "Start Your Journey"]>>
  ELSE LET lengths == Lengths(cycles)
           avgLength == Mean(lengths)
           variance == CycleAnalyzer_calculateVariance(lengths)
       IN  (IF RLt(avgLength, RInt(veryShort))
            THEN <<[category |-> "cycle_length", severity |-> "warning",
                    title |-> "Very Short Cycles"]>>
            ELSE IF RLt(RInt(35), avgLength)
            THEN <<[category |-> "cycle_length", severity |-> "warning",
                    title |-> "Very Long Cycles"]>>
            ELSE <<>>)
           \o (IF RLt(RInt(49), variance)
               THEN <<[category |-> "regularity", severity |-> "caution",
                       title |-> "Irregular Cycles"]>>
               ELSE <<>>)
           \o (IF symptoms.severePain
               THEN <<[category |-> "symptoms", severity |-> "warning",
                       title |-> "Severe Pain"]>>
               ELSE <<>>)

generateHealthInsights(cycles, symptoms) ==
  IF Len(cycles) = 0
  THEN <<[category |-> "tracking", severity |-> "info", title |-> "Start Your Journey"]>>
  ELSE LET lengths == Lengths(cycles)
           avgLength == Mean(lengths)
           variance == CycleAnalyzer_calculateVariance(lengths)
       IN  (IF RLt(avgLength, RInt(veryShort))
            THEN <<[category |-> "cycle_length", severity |-> "warning",
                    title |-> "Very Short Cycles"]>>
            ELSE IF RLt(RInt(veryLong), avgLength)
            THEN <<[category |-> "cycle_length", severity |-> "warning",
                    title |-> "Very Long Cycles"]>>
            ELSE <<>>)
           \o (IF RLt(RInt(49), variance)
               THEN <<[category |-> "regularity", severity |-> "caution",
                       title |-> "Irregular Cycles"]>>
               ELSE <<>>)
           \o (IF symptoms.severePain
               THEN <<[category |-> "symptoms", severity |-> "warning",
                       title |-> "Severe Pain"]>>
               ELSE <<>>)

SeasonOf(cycle) ==
  LET month == getMonth(cycle.start)
  IN  IF month >= 2 /\ month <= 4 THEN "spring"
      ELSE IF month >= 5 /\ month <= 7 THEN "summer"
      ELSE IF month >= 8 /\ month <= 10 THEN "autumn"
      ELSE "winter"

detectSeasonalPatterns(cycles) ==
  LET seasonalData(season) ==
        Lengths(SelectSeq(cycles, LAMBDA c : SeasonOf(c) = season))
      sampled == {season \in {"spring", "summer", "autumn", "winter"} :
                    Len(seasonalData(season)) > 0}
  IN  [season \in sampled |-> Mean(seasonalData(season))]

\* detectTrendingPatterns naming a difference of exactly one day a change
detectTrendingPatterns_fromOneDay(cycles) ==
  LET recentCycles == LastK(cycles, 6)
      olderCycles == SubSeq(cycles, 1, Len(cycles) - 6)
      recentAvg == Mean(Lengths(recentCycles))
      olderAvg == Mean(Lengths(olderCycles))
      trend == RSub(recentAvg, olderAvg)
  IN  IF Len(olderCycles) = 0 THEN Null
      ELSE [direction |-> IF RLe(RInt(1), trend) THEN "lengthening"
                          ELSE IF RLe(trend, RInt(-1)) THEN "shortening"
                          ELSE "stable",
            magnitude |-> RAbs(trend),
            significance |-> IF RLt(RInt(2), RAbs(trend)) THEN "significant"
                             ELSE "minor"]

detectTrendingPatterns(cycles) ==
  LET recentCycles == LastK(cycles, 6)
      olderCycles == SubSeq(cycles, 1, Len(cycles) - 6)
      recentAvg == Mean(Lengths(recentCycles))
      olderAvg == Mean(Lengths(olderCycles))
      trend == RSub(recentAvg, olderAvg)
  IN  IF Len(olderCycles) = 0 THEN Null
      ELSE [direction |-> IF RLt(RInt(1), trend) THEN "lengthening"
                          ELSE IF RLt(trend, RInt(-1)) THEN "shortening"
                          ELSE "stable",
            magnitude |-> RAbs(trend),
            significance |-> IF RLt(RInt(2), RAbs(trend)) THEN "significant"
                             ELSE "minor"]

detectCyclicalPatterns(cycles) ==
  IF Len(cycles) < 8 THEN Null
  ELSE LET lengths == Lengths(cycles)
           \* array index i is position i + 1 of the sequence
           evenIdx == {i \in 1..Len(lengths) : (i - 1) % 2 = 0}
           oddIdx == {i \in 1..Len(lengths) : (i - 1) % 2 = 1}
           SumAt(idx) == SumSeq([i \in 1..Len(lengths) |->
                                   IF i \in idx THEN lengths[i] ELSE 0])
           evenAvg == Rat(SumAt(evenIdx), Cardinality(evenIdx))
           oddAvg == Rat(SumAt(oddIdx), Cardinality(oddIdx))
           difference == RAbs(RSub(evenAvg, oddAvg))
       IN  [detected |-> RLt(RInt(2), difference),
            pattern |-> IF RLt(oddAvg, evenAvg) THEN "even_longer" ELSE "odd_longer",
            difference |-> difference]

\* Math.abs(cycle.length - mean) / stdDev > 2, with stdDev = Math.sqrt(variance):
\* 0 / 0 is NaN (no comparison holds) and x / 0 is Infinity for x > 0
zScoreAbove2(length, mean, variance) ==
  LET distance == RAbs(RSub(RInt(length), mean))
  IN  IF variance = RInt(0) THEN distance # RInt(0)
      ELSE ExceedsTwoSqrt(distance, variance)

\* detectOutliers without Math.abs: only cycles longer than the mean are flagged
detectOutliers_longOnly(cycles) ==
  LET lengths == Lengths(cycles)
      mean == Mean(lengths)
      variance == CycleAnalyzer_calculateVariance(lengths)
      outliers == SelectSeq(cycles, LAMBDA c :
                    /\ c.length * Len(lengths) > SumSeq(lengths)
                    /\ zScoreAbove2(c.length, mean, variance))
  IN  [i \in 1..Len(outliers) |->
         [date |-> outliers[i].start,
          length |-> outliers[i].length,
          deviation |-> RSub(RInt(outliers[i].length), mean)]]

detectOutliers(cycles) ==
  LET lengths == Lengths(cycles)
      mean == Mean(lengths)
      variance == CycleAnalyzer_calculateVariance(lengths)
      outliers == SelectSeq(cycles, LAMBDA c : zScoreAbove2(c.length, mean, variance))
  IN  [i \in 1..Len(outliers) |->
         [date |-> outliers[i].start,
          length |-> outliers[i].length,
          deviation |-> RSub(RInt(outliers[i].length), mean)]]

\* detectPatterns asking for more than 6 cycles
detectPatterns_sixIsInsufficient(cycles) ==
  IF Len(cycles) <= 6 THEN [insufficient_data |-> TRUE]
  ELSE [seasonal |-> detectSeasonalPatterns(cycles),
        trending |-> detectTrendingPatterns(cycles),
        cyclical |-> detectCyclicalPatterns(cycles),
        outliers |-> detectOutliers(cycles)]

detectPatterns(cycles) ==
  IF Len(cycles) < 6 THEN [insufficient_data |-> TRUE]
  ELSE [seasonal |-> detectSeasonalPatterns(cycles),
        trending |-> detectTrendingPatterns(cycles),
        cyclical |-> detectCyclicalPatterns(cycles),
        outliers |-> detectOutliers(cycles)]

\* assessHealthRisks asking for both PCOS indicators
assessHealthRisks_bothIndicators(cycles, symptoms) ==
  IF Len(cycles) = 0 THEN <<>>
  ELSE LET lengths == Lengths(cycles)
           avgLength == Mean(lengths)
           variance == CycleAnalyzer_calculateVariance(lengths)
       IN  (IF RLt(RInt(35), avgLength) /\ RLt(RInt(64), variance)
            THEN <<[condition |-> "PCOS", risk |-> "moderate"]>>
            ELSE <<>>)
           \o (IF RLt(avgLength, RInt(24)) \/ RLt(RInt(38), avgLength)
               THEN <<[condition |-> "thyroid_dysfunction", risk |-> "low_to_moderate"]>>
               ELSE <<>>)
           \o (IF RLt(RInt(36), variance)
               THEN <<[condition |-> "hormonal_imbalance", risk |-> "moderate"]>>
               ELSE <<>>)

assessHealthRisks(cycles, symptoms) ==
  IF Len(cycles) = 0 THEN <<>>
  ELSE LET lengths == Lengths(cycles)
           avgLength == Mean(lengths)
           variance == CycleAnalyzer_calculateVariance(lengths)
       IN  (IF RLt(RInt(35), avgLength) \/ RLt(RInt(64), variance)
            THEN <<[condition |-> "PCOS", risk |-> "moderate"]>>
            ELSE <<>>)
           \o (IF RLt(avgLength, RInt(24)) \/ RLt(RInt(38), avgLength)
               THEN <<[condition |-> "thyroid_dysfunction", risk |-> "low_to_moderate"]>>
               ELSE <<>>)
           \o (IF RLt(RInt(36), variance)
               THEN <<[condition |-> "hormonal_imbalance", risk |-> "moderate"]>>
               ELSE <<>>)

calculateTrackingPeriod(cycles) ==
  IF Len(cycles) = 0 THEN 0
  ELSE LET firstCycle == DateOfDay(cycles[1].start)
           lastCycle == DateOfDay(cycles[Len(cycles)].start)
       IN  \* Math.round((lastCycle - firstCycle) / (1000 * 60 * 60 * 24 * 30.44))
           MathRound(Rat((lastCycle - firstCycle) * 100, TICKS_PER_DAY * 3044))

CycleAnalyzer_assessDataQuality(cycles) ==
  IF Len(cycles) = 0 THEN "none"
  ELSE IF Len(cycles) < 3 THEN "insufficient"
  ELSE IF Len(cycles) < 6 THEN "limited"
  ELSE IF Len(cycles) < 12 THEN "good"
  ELSE "excellent"

\* calculateHealthScore with the variance penalty dropped, not capped, above 30
calculateHealthScore_penaltyDroppedAboveCap(avgLength, variance, cycleCount) ==
  LET doubled == RMul(variance, RInt(2))
      afterVariance == RSub(RInt(100), IF RLt(RInt(30), doubled) THEN RInt(0) ELSE doubled)
      afterLength ==
        IF RLt(avgLength, RInt(25)) \/ RLt(RInt(32), avgLength)
        THEN RSub(afterVariance,
                  RMin(RInt(20), RMul(RAbs(RSub(avgLength, Rat(285, 10))), RInt(2))))
        ELSE afterVariance
      bonus == (IF cycleCount >= 6 THEN 5 ELSE 0) + (IF cycleCount >= 12 THEN 5 ELSE 0)
      score == MathRound(RAdd(afterLength, RInt(bonus)))
      capped == IF 100 < score THEN 100 ELSE score
  IN  IF 0 > capped THEN 0 ELSE capped

calculateHealthScore(avgLength, variance, cycleCount) ==
  LET afterVariance == RSub(RInt(100), RMin(RInt(30), RMul(variance, RInt(2))))
      afterLength ==
        IF RLt(avgLength, RInt(25)) \/ RLt(RInt(32), avgLength)
        THEN RSub(afterVariance,
                  RMin(RInt(20), RMul(RAbs(RSub(avgLength, Rat(285, 10))), RInt(2))))
        ELSE afterVariance
      bonus == (IF cycleCount >= 6 THEN 5 ELSE 0) + (IF cycleCount >= 12 THEN 5 ELSE 0)
      score == MathRound(RAdd(afterLength, RInt(bonus)))
      capped == IF 100 < score THEN 100 ELSE score
  IN  IF 0 > capped THEN 0 ELSE capped

createCycleProfile(cycles) ==
  IF Len(cycles) = 0
  THEN [status |-> "no_data"]
  ELSE LET lengths == Lengths(cycles)
           avgLength == Mean(lengths)
           variance == CycleAnalyzer_calculateVariance(lengths)
       IN  [averageLength |-> Rat(MathRound(RMul(avgLength, RInt(10))), 10),
            regularity |-> IF RLt(variance, RInt(4)) THEN "very_regular"
                           ELSE IF RLt(variance, RInt(9)) THEN "regular"
                           ELSE IF RLt(variance, RInt(25)) THEN "somewhat_irregular"
                           ELSE "irregular",
            lengthCategory |-> IF RLt(avgLength, RInt(short)) THEN "short"
                               ELSE IF RLe(avgLength, RInt(normalUpper)) THEN "normal"
                               ELSE "long",
            totalCycles |-> Len(cycles),
            trackingPeriod |-> calculateTrackingPeriod(cycles),
            dataQuality |-> CycleAnalyzer_assessDataQuality(cycles),
            healthScore |-> calculateHealthScore(avgLength, variance, Len(cycles))]

analyzeFullProfile(cycleData, symptoms, settings, now) ==
  LET called == analyzeCycles(cycleData, settings, now)
      prediction == called.value
  IN  IF called.type = "throw" THEN called
      ELSE Normal(prediction @@
                  [healthInsights |-> generateHealthInsights(cycleData, symptoms),
                   patterns |-> detectPatterns(cycleData),
                   riskAssessment |-> assessHealthRisks(cycleData, symptoms),
                   cycleProfile |-> createCycleProfile(cycleData)])

----------------------------------------------------------------------------
(* The cycle tracker of the page (modules/cycle.js): logged start dates    *)
(* kept in localStorage under keys "year-month-day", and the summary shown. *)
(* A date is a day number counted from 1 January of EPOCH_YEAR, local time; *)
(* a key is the sequence of the UTF-16 code units of its text.              *)

EPOCH_YEAR == 2025

\* the code unit of "-"
HYPHEN == 45

\* the code unit of "0"
DIGIT_ZERO == 48

\* clamp(n, min, max) of utils.js
clamp(n, min, max) ==
  LET low == IF max < n THEN max ELSE n
  IN  IF min > low THEN min ELSE low

\* the decimal text of a number, as template literals produce it
RECURSIVE Digits(_)
Digits(n) ==
  IF n < 10 THEN <<DIGIT_ZERO + n>>
  ELSE Append(Digits(n \div 10), DIGIT_ZERO + (n % 10))

getFullYear(date) == EPOCH_YEAR + date \div DAYS_PER_YEAR

\* Date.prototype.getDate: the day of the month
getDate(date) ==
  LET m == getMonth(date)
  IN  (date % DAYS_PER_YEAR) - (IF m = 0 THEN 0 ELSE MonthEnds[m]) + 1

\* new Date(Y, M, D) for a day D of the month M (0 = January)
NewDate(Y, M, D) ==
  (Y - EPOCH_YEAR) * DAYS_PER_YEAR + (IF M = 0 THEN 0 ELSE MonthEnds[M]) + D - 1

fmtKey(d) ==
  Digits(getFullYear(d)) \o <<HYPHEN>> \o Digits(getMonth(d) + 1)
    \o <<HYPHEN>> \o Digits(getDate(d))

\* parseInt(text, 10) of a run of digits
RECURSIVE ParseInt(_)
ParseInt(text) ==
  IF text = <<>> THEN 0
  ELSE 10 * ParseInt(SubSeq(text, 1, Len(text) - 1)) + (text[Len(text)] - DIGIT_ZERO)

\* k.split('-')
RECURSIVE Split(_)
Split(k) ==
  IF \A i \in 1..Len(k) : k[i] # HYPHEN THEN <<k>>
  ELSE LET cut == CHOOSE i \in 1..Len(k) :
                    k[i] = HYPHEN /\ \A j \in 1..(i - 1) : k[j] # HYPHEN
       IN  <<SubSeq(k, 1, cut - 1)>> \o Split(SubSeq(k, cut + 1, Len(k)))

parseKey(k) ==
  LET parts == Split(k)
  IN  NewDate(ParseInt(parts[1]), ParseInt(parts[2]) - 1, ParseInt(parts[3]))

\* a < b for strings: the order of the default Array.prototype.sort, by code units
RECURSIVE StringLess(_, _)
StringLess(a, b) ==
  IF b = <<>> THEN FALSE
  ELSE IF a = <<>> THEN TRUE
  ELSE IF Head(a) # Head(b) THEN Head(a) < Head(b)
  ELSE StringLess(Tail(a), Tail(b))

\* Array.from(set).sort(): the strings of a set in ascending order
RECURSIVE SortStrings(_)
SortStrings(S) ==
  IF S = {} THEN <<>>
  ELSE LET least == CHOOSE k \in S : \A other \in S \ {k} : StringLess(k, other)
       IN  <<least>> \o SortStrings(S \ {least})

\* the dates of a set in ascending order: sort((a, b) => a - b)
RECURSIVE SortDates(_)
SortDates(S) ==
  IF S = {} THEN <<>>
  ELSE LET least == CHOOSE d \in S : \A other \in S : d <= other
       IN  <<least>> \o SortDates(S \ {least})

Elements(array) == {array[i] : i \in 1..Len(array)}

\* toggleLoggedStart that only ever adds the key
toggledLog_addOnly(log, key) ==
  SortStrings(Elements(log) \cup {key})

\* toggleLoggedStart's new log: the key removed when present, added when not,
\* the keys then stored in sorted order
toggledLog(log, key) ==
  SortStrings(IF key \in Elements(log) THEN Elements(log) \ {key}
              ELSE Elements(log) \cup {key})

\* getCycle: the stored settings with cycle and luteal length clamped
getCycle(cfg) ==
  [start |-> cfg.start,
   len |-> clamp(IF cfg.len = Absent THEN 28 ELSE cfg.len, 20, 40),
   luteal |-> clamp(IF cfg.luteal = Absent THEN 14 ELSE cfg.luteal, 8, 18),
   adv |-> cfg.adv]

\* computeAverages().avgLen: the rounded mean of the rounded day differences of
\* the logged dates in chronological order; Absent stands for the null of a log
\* without intervals and for the NaN of keys that new Date(text) does not parse
computeAverages(log, parsesKeys) ==
  LET dates == SortDates({parseKey(log[i]) : i \in 1..Len(log)})
      diffs == [i \in 1..(Len(dates) - 1) |-> dates[i + 1] - dates[i]]
  IN  IF Len(log) < 2 \/ ~parsesKeys THEN Absent
      ELSE MathRound(Rat(SumSeq(diffs), Len(diffs)))

\* the "–" shown when there is no date
Dash == [text |-> "dash"]

\* toLocaleDateString('en-US'): month/day/year
toLocaleDateString(d) ==
  [month |-> getMonth(d) + 1, day |-> getDate(d), year |-> getFullYear(d)]

\* the seed of computeCycleMarks: the latest logged date, else the configured start
computeCycleMarks_seed(log, cfg) ==
  IF Len(log) > 0
  THEN LET dates == SortDates({parseKey(log[i]) : i \in 1..Len(log)})
       IN  dates[Len(dates)]
  ELSE getCycle(cfg).start

\* updateCycleSummary: the two dates it writes to #nextPeriod and #nextOvul
updateCycleSummary(log, cfg, parsesKeys) ==
  LET cycle == getCycle(cfg)
      avgLen == computeAverages(log, parsesKeys)
      baseLen == clamp(IF avgLen # Absent THEN avgLen ELSE cycle.len, 20, 40)
      sorted == SortStrings(Elements(log))
      last == IF Len(log) > 0 THEN parseKey(sorted[Len(sorted)]) ELSE cycle.start
      next == last + baseLen
      ov == next - (IF cycle.adv THEN cycle.luteal ELSE 14)
  IN  IF Len(log) = 0 /\ cycle.start = Absent
      THEN [nextPeriod |-> Dash, nextOvul |-> Dash]
      ELSE [nextPeriod |-> toLocaleDateString(next),
            nextOvul |-> toLocaleDateString(ov)]

----------------------------------------------------------------------------
(* The engine in use: a caller holds a cycle history, settings and symptom *)
(* flags, and calls the two entry points; the clock advances in between.   *)

VARIABLES cycleHistory, settings, symptoms, today, report,
          cycleLog, cycleCfg, parsesKeys, summary

vars == <<cycleHistory, settings, symptoms, today, report,
          cycleLog, cycleCfg, parsesKeys, summary>>

engineVars == <<cycleHistory, settings, symptoms, today, report>>

cycleVars == <<cycleLog, cycleCfg, parsesKeys, summary>>

\* localStorage without 'cherry_cycle': getCycle reads {} (adv: d.adv !== false)
NoCfg == [start |-> Absent, len |-> Absent, luteal |-> Absent, adv |-> TRUE]

\* the tracker as initCycle leaves it on a fresh page, nothing logged; the
\* browser is one whose new Date(text) parses the keys
CycleIdle ==
  /\ cycleLog = <<>>
  /\ cycleCfg = NoCfg
  /\ parsesKeys = TRUE
  /\ summary = updateCycleSummary(<<>>, NoCfg, TRUE)

\* no call has returned yet
NoReport == [op |-> "none", result |-> Null]

Cycle(start, length) == [start |-> start, length |-> length]

\* Cycle records a caller may pass: a start or a length that is absent, lengths
\* just outside [21, 35] and lengths on its limits.
SampleRecords ==
  {Cycle(Absent, 28), Cycle(130, Absent), Cycle(5, 20), Cycle(120, 36),
   Cycle(10, 21), Cycle(60, 35)}

SeqsUpTo(S, n) == UNION {[1..k -> S] : k \in 0..n}

DefaultSettings == [lutealLength |-> Absent, advancedEstimation |-> FALSE]

SettingsSet == [lutealLength : {Absent, 12}, advancedEstimation : BOOLEAN]

NoSymptoms == [severePain |-> FALSE]

SymptomsSet == [severePain : BOOLEAN]

\* arbitrary histories, unsorted and with records that cleaning drops
Init ==
  /\ cycleHistory \in SeqsUpTo(SampleRecords, MaxHistory)
  /\ settings \in SettingsSet
  /\ symptoms = NoSymptoms
  /\ today = 0
  /\ report = NoReport
  /\ CycleIdle

\* A history logged cycle after cycle: each record starts where the previous
\* one ended.
RECURSIVE Series(_, _)
Series(lengths, start) ==
  IF lengths = <<>> THEN <<>>
  ELSE <<Cycle(start, Head(lengths))>>
       \o Series(Tail(lengths), start + Head(lengths))

StatsLengths == {21, 26, 28, 30, 35}

\* short well-formed histories, every setting
InitStats ==
  /\ \E lengths \in SeqsUpTo(StatsLengths, MaxStats) :
       cycleHistory = Series(lengths, 1)
  /\ settings \in SettingsSet
  /\ symptoms = NoSymptoms
  /\ today = 0
  /\ report = NoReport
  /\ CycleIdle

ConfLengths == {21, 35}

\* well-formed histories long enough for the variance-based confidence
InitConf ==
  /\ \E lengths \in SeqsUpTo(ConfLengths, MaxConf) :
       cycleHistory = Series(lengths, 1)
  /\ settings = DefaultSettings
  /\ symptoms = NoSymptoms
  /\ today = 0
  /\ report = NoReport
  /\ CycleIdle

PatternLengths == {28, 38}

\* histories long enough for the pattern detection
InitPatterns ==
  /\ \E lengths \in SeqsUpTo(PatternLengths, MaxPatterns) :
       cycleHistory = Series(lengths, 1)
  /\ settings = DefaultSettings
  /\ symptoms = NoSymptoms
  /\ today = 0
  /\ report = NoReport
  /\ CycleIdle

HealthLengths == {25, 28, 29, 32}

\* histories whose lengths can average 28.5 with several variances
InitHealth ==
  /\ \E lengths \in SeqsUpTo(HealthLengths, MaxHealth) :
       cycleHistory = Series(lengths, 1)
  /\ settings = DefaultSettings
  /\ symptoms = NoSymptoms
  /\ today = 0
  /\ report = NoReport
  /\ CycleIdle

TrendLengths == {28, 34}

\* histories with cycles earlier than the six most recent, whose means differ
\* by whole days
InitTrend ==
  /\ \E lengths \in SeqsUpTo(TrendLengths, MaxTrend) :
       cycleHistory = Series(lengths, 1)
  /\ settings = DefaultSettings
  /\ symptoms = NoSymptoms
  /\ today = 0
  /\ report = NoReport
  /\ CycleIdle

RiskLengths == {7, 21, 23, 24, 35, 37, 41, 43}

\* short histories as the analyzer receives them, with lengths outside [21, 35],
\* whose means and variances meet the thresholds of the insight and risk rules
InitRisk ==
  /\ \E lengths \in SeqsUpTo(RiskLengths, MaxRisk) :
       cycleHistory = Series(lengths, 1)
  /\ settings = DefaultSettings
  /\ symptoms \in SymptomsSet
  /\ today = 0
  /\ report = NoReport
  /\ CycleIdle

\* engine.analyzeCycles(cycleHistory, settings)
AnalyzeCycles ==
  /\ report' = [op |-> "analyzeCycles",
                result |-> analyzeCycles(cycleHistory, settings, today)]
  /\ cycleHistory' = cycleHistoryAfter(cycleHistory)
  /\ UNCHANGED <<settings, symptoms, today>>
  /\ UNCHANGED cycleVars

\* analyzer.analyzeFullProfile(cycleData, symptoms, settings)
AnalyzeFullProfile ==
  /\ report' = [op |-> "analyzeFullProfile",
                result |-> analyzeFullProfile(cycleHistory, symptoms, settings, today)]
  /\ cycleHistory' = cycleHistoryAfter(cycleHistory)
  /\ UNCHANGED <<settings, symptoms, today>>
  /\ UNCHANGED cycleVars

\* the clock read by new Date() moves on
Tick ==
  /\ today < MaxToday
  /\ today' = today + 1
  /\ UNCHANGED <<cycleHistory, settings, symptoms, report>>
  /\ UNCHANGED cycleVars

Next == AnalyzeCycles \/ AnalyzeFullProfile \/ Tick

Spec == Init /\ [][Next]_vars

SpecStats == InitStats /\ [][Next]_vars

SpecConf == InitConf /\ [][Next]_vars

SpecPatterns == InitPatterns /\ [][Next]_vars

SpecHealth == InitHealth /\ [][Next]_vars

SpecTrend == InitTrend /\ [][Next]_vars

SpecRisk == InitRisk /\ [][Next]_vars

\* the engine before any call, with nothing to analyze
EngineIdle ==
  /\ cycleHistory = <<>>
  /\ settings = DefaultSettings
  /\ symptoms = NoSymptoms
  /\ today = 0
  /\ report = NoReport

\* the days of the calendar that get clicked: 3 September, 1 October,
\* 29 October and 26 November of EPOCH_YEAR
ClickableDays == {245, 273, 301, 329}

\* what the form can hold: a start date or none, cycle and luteal lengths in
\* and out of the ranges they are clamped to
FormSet == [start : {Absent, 240}, len : {18, 30}, luteal : {12, 20}, adv : BOOLEAN]

\* initCycle on a fresh page, in a browser whose new Date(text) parses the
\* keys or in one where it gives an invalid date
InitCycle ==
  /\ EngineIdle
  /\ cycleLog = <<>>
  /\ cycleCfg = NoCfg
  /\ parsesKeys \in BOOLEAN
  /\ summary = updateCycleSummary(<<>>, NoCfg, parsesKeys)

\* a click on a day of the calendar: toggleLoggedStart(key)
ToggleLoggedStart(key) ==
  /\ cycleLog' = toggledLog(cycleLog, key)
  /\ summary' = updateCycleSummary(cycleLog', cycleCfg, parsesKeys)
  /\ UNCHANGED <<cycleCfg, parsesKeys>>
  /\ UNCHANGED engineVars

\* an input or the Save button: persistCycle(), then updateCycleSummary()
PersistCycle(form) ==
  /\ cycleCfg' = [start |-> form.start,
                  len |-> clamp(form.len, 20, 40),
                  luteal |-> clamp(form.luteal, 8, 18),
                  adv |-> form.adv]
  /\ summary' = updateCycleSummary(cycleLog, cycleCfg', parsesKeys)
  /\ UNCHANGED <<cycleLog, parsesKeys>>
  /\ UNCHANGED engineVars

\* the Clear button, confirmed
ClearCycle ==
  /\ cycleLog' = <<>>
  /\ summary' = updateCycleSummary(cycleLog', cycleCfg, parsesKeys)
  /\ UNCHANGED <<cycleCfg, parsesKeys>>
  /\ UNCHANGED engineVars

NextCycle ==
  \/ \E d \in ClickableDays : ToggleLoggedStart(fmtKey(d))
  \/ \E form \in FormSet : PersistCycle(form)
  \/ ClearCycle

SpecCycle == InitCycle /\ [][NextCycle]_vars

----------------------------------------------------------------------------
(* Properties.                                                             *)

\* a call has returned a report (it did not throw)
Returned == report.op # "none" /\ report.result.type = "normal"

\* a call has ended, with a report or with an exception
Called == report.op # "none"

\* the records of the input that cleaning keeps, stated on the input itself
Survives(c) == c.start # Absent /\ c.length # Absent /\ c.length \in 21..35

Survivors == {i \in 1..Len(cycleHistory) : Survives(cycleHistory[i])}

StartTracking ==
  [type |-> "data", priority |-> "high", message |-> "Start tracking your cycles"]

\* C1: analyzeCycles and analyzeFullProfile never raise; for a non-empty history
\* whose records are all dropped by cleaning they return the documented defaults
\* (averageLength 28, confidence 0, the 'start tracking' recommendation).
C1_NeverRaises ==
  Called =>
    /\ report.result.type = "normal"
    /\ (Len(cycleHistory) > 0 /\ Survivors = {}) =>
         /\ report.result.value.statistics.averageLength = RInt(28)
         /\ report.result.value.confidence = RInt(0)
         /\ report.result.value.recommendations = <<StartTracking>>

\* C2: whenever a record survives cleaning, the predicted next cycle start is
\* strictly later than the start of every surviving record, hence later than the
\* latest one, with advancedEstimation off and on.
C2_NextStartAfterLast ==
  (Returned /\ Survivors # {}) =>
    \A i \in Survivors :
      report.result.value.predictions.nextCycle.startDate
        > DateOfDay(cycleHistory[i].start)

\* C2 witness: a report for an unsorted input with three surviving records and
\* advancedEstimation on.
C2_Witness ==
  /\ Returned
  /\ settings.advancedEstimation
  /\ Cardinality(Survivors) >= 3
  /\ \E i, j \in Survivors : i < j /\ cycleHistory[i].start > cycleHistory[j].start
  /\ \A i \in Survivors :
       report.result.value.predictions.nextCycle.startDate
         > DateOfDay(cycleHistory[i].start)

\* C3: every record cleanCycleData returns has a length in [21, 35], and the
\* statistics of a non-empty cleaned history report shortest >= 21 and
\* longest <= 35.
C3_CleanedLengthsInRange ==
  /\ \A i \in DOMAIN cleanCycleData(cycleHistory) :
       cleanCycleData(cycleHistory)[i].length \in 21..35
  /\ (Returned /\ report.result.value.statistics.totalCycles > 0) =>
       /\ report.result.value.statistics.shortest >= 21
       /\ report.result.value.statistics.longest <= 35

\* C3 witness: the input holds records of length 20 and 36 next to records on both
\* limits, and the report's statistics span exactly 21 to 35.
C3_Witness ==
  /\ Returned
  /\ \E i \in 1..Len(cycleHistory) : cycleHistory[i].length = 20
  /\ \E i \in 1..Len(cycleHistory) : cycleHistory[i].length = 36
  /\ report.result.value.statistics.totalCycles > 0
  /\ report.result.value.statistics.shortest = 21
  /\ Len(cleanCycleData(cycleHistory)) < Len(cycleHistory)

\* C4: for an empty history the report has averageLength 28, confidence 0 and
\* exactly one recommendation, the default 'start tracking' one.
C4_EmptyHistoryDefaults ==
  (Called /\ Len(cycleHistory) = 0) =>
    /\ report.result.type = "normal"
    /\ report.result.value.statistics.averageLength = RInt(28)
    /\ report.result.value.confidence = RInt(0)
    /\ Len(report.result.value.recommendations) = 1
    /\ report.result.value.recommendations[1] = StartTracking

\* C4 witness: analyzeCycles has returned for an empty history.
C4_Witness ==
  /\ report.op = "analyzeCycles"
  /\ Len(cycleHistory) = 0
  /\ report.result.value.statistics.averageLength = RInt(28)
  /\ Len(report.result.value.recommendations) = 1

DayScore(d) == RMax(Rat(2, 10), RSub(RInt(1), Rat(Abs(d - 3), 6)))

\* C6: every fertility window returned, the no-history default included, carries
\* one entry for each of the 7 days from windowStart to windowEnd, the entry at
\* day offset d scoring max(0.2, 1 - |d - 3| / 6), within [0.2, 1].
C6_SevenDailyScores ==
  Returned =>
    LET w == report.result.value.fertilityWindow
    IN  /\ Len(w.fertilePhase) = 7
        /\ \A k \in 1..Len(w.fertilePhase) :
             /\ w.fertilePhase[k].date = w.windowStart + (k - 1) * TICKS_PER_DAY
             /\ w.fertilePhase[k].fertility = DayScore(k - 1)
             /\ RLe(Rat(2, 10), w.fertilePhase[k].fertility)
             /\ RLe(w.fertilePhase[k].fertility, RInt(1))

\* the population variance of the lengths: (n * sum of squares - square of sum) / n^2
SumSqTimesN(lengths) == Len(lengths) * SumSq(lengths) - SumSeq(lengths) * SumSeq(lengths)

PopulationVariance(lengths) == Rat(SumSqTimesN(lengths), Len(lengths) * Len(lengths))

\* the score the claim tabulates for the lengths of a cleaned history
TabulatedConfidence(lengths) ==
  CASE Len(lengths) = 0 -> RInt(0)
    [] Len(lengths) = 1 -> Rat(3, 10)
    [] Len(lengths) = 2 -> Rat(5, 10)
    [] Len(lengths) \in 3..5 -> Rat(7, 10)
    [] OTHER ->
         RMin(Rat(95, 100),
              RAdd(Rat(6, 10),
                   RMul(Rat(35, 100),
                        RMax(RInt(0),
                             RSub(RInt(1),
                                  RDiv(PopulationVariance(lengths), RInt(100)))))))

SurvivorLengths == Lengths(SelectSeq(cycleHistory, Survives))

\* C7: calculateConfidence is 0 for 0 cleaned cycles, 0.3 for 1, 0.5 for 2, 0.7
\* for 3 to 5 and min(0.95, 0.6 + 0.35 * max(0, 1 - variance / 100)) for 6 or
\* more, always within [0, 0.95]; a report for a history carries that score.
C7_ConfidenceTable ==
  LET confidence == calculateConfidence(cleanCycleData(cycleHistory))
  IN  /\ confidence = TabulatedConfidence(SurvivorLengths)
      /\ RLe(RInt(0), confidence)
      /\ RLe(confidence, Rat(95, 100))
      /\ (Returned /\ Len(cycleHistory) > 0) =>
           report.result.value.confidence = TabulatedConfidence(SurvivorLengths)

\* C7 witness: a report for six or more cycles of unequal length, whose score lies
\* strictly between 0.6 and 0.95.
C7_Witness ==
  /\ Returned
  /\ Len(SurvivorLengths) >= 6
  /\ RLt(Rat(6, 10), report.result.value.confidence)
  /\ RLt(report.result.value.confidence, Rat(95, 100))
  /\ report.result.value.confidence = TabulatedConfidence(SurvivorLengths)

\* a valid record appended to a cleaned history
ValidLengths == 21..35

WithRecord(cycles, length) ==
  Append(cycles,
         Cycle(IF cycles = <<>> THEN 1
               ELSE cycles[Len(cycles)].start + cycles[Len(cycles)].length,
               length))

\* the confidence of the cleaned history with one more valid record
ConfidenceWith(length) ==
  calculateConfidence(
    cleanCycleData(WithRecord(cleanCycleData(cycleHistory), length)))

\* C8 as stated: for every cleaned history whose reported confidence is below the
\* 0.95 ceiling and every additional valid record, the confidence with the record
\* appended is not lower.
C8_NonDecreasingInCount ==
  (Returned /\ RLt(report.result.value.confidence, Rat(95, 100))) =>
    \A length \in ValidLengths :
      RLe(report.result.value.confidence, ConfidenceWith(length))

\* C8 amended: for every cleaned history of fewer than 6 cycles and every
\* additional valid record, the confidence with the record appended is not lower
\* than the reported one.
C8_NonDecreasingBelowSix ==
  (Returned /\ Len(cleanCycleData(cycleHistory)) < 6) =>
    \A length \in ValidLengths :
      RLe(report.result.value.confidence, ConfidenceWith(length))

\* C8 witness: a report with confidence 0.7 for five cycles, to which a sixth
\* cycle can be added that leaves the score below the ceiling.
C8_Witness ==
  /\ Returned
  /\ Len(cleanCycleData(cycleHistory)) = 5
  /\ report.result.value.confidence = Rat(7, 10)
  /\ \E length \in ValidLengths :
       /\ RLe(Rat(7, 10), ConfidenceWith(length))
       /\ RLt(ConfidenceWith(length), Rat(95, 100))

\* Natural numbers of any size, least significant limb first, in base 10000.
RECURSIVE BigMul(_, _, _)
BigMul(b, k, carry) ==
  IF b = <<>>
  THEN IF carry = 0 THEN <<>>
       ELSE <<carry % 10000>> \o BigMul(<<>>, k, carry \div 10000)
  ELSE LET v == Head(b) * k + carry
       IN  <<v % 10000>> \o BigMul(Tail(b), k, v \div 10000)

RECURSIVE BigLeSameLen(_, _)
BigLeSameLen(a, b) ==
  IF a = <<>> THEN TRUE
  ELSE LET n == Len(a)
       IN  IF a[n] # b[n] THEN a[n] < b[n]
           ELSE BigLeSameLen(SubSeq(a, 1, n - 1), SubSeq(b, 1, n - 1))

BigLe(a, b) == IF Len(a) # Len(b) THEN Len(a) < Len(b) ELSE BigLeSameLen(a, b)

\* (m * d)^2 <= (2 * c)^2 * v, for m >= 1, d >= 1, c >= 1 and v >= 0
SquareAtMost(m, d, c, v) ==
  BigLe(BigMul(BigMul(BigMul(BigMul(<<1>>, m, 0), m, 0), d, 0), d, 0),
        BigMul(BigMul(<<v>>, 2 * c, 0), 2 * c, 0))

\* k is c * sqrt(v) / d rounded to the nearest integer, halves upwards:
\* k - 1/2 <= c * sqrt(v) / d < k + 1/2
IsRoundedSqrt(k, c, v, d) ==
  /\ k >= 0
  /\ k > 0 => SquareAtMost(2 * k - 1, d, c, v)
  /\ ~SquareAtMost(2 * k + 1, d, c, v)

\* k / 100, for a rational that is a whole number of hundredths
Hundredths(x) == (x[1] * 100) \div x[2]

\* the parts of C9 that do not concern the irregularity score
C9_AverageAndDeviation(stats, lengths) ==
  /\ stats.averageLength
       = Rat((200 * SumSeq(lengths) + Len(lengths)) \div (2 * Len(lengths)), 100)
  /\ IsRoundedSqrt(Hundredths(stats.standardDeviation), 100,
                   SumSqTimesN(lengths), Len(lengths))
  /\ lengths = <<28, 30, 26>> =>
       /\ stats.averageLength = RInt(28)
       /\ stats.standardDeviation = Rat(163, 100)

\* the irregularity score is 100 * sqrt(population variance) / mean, rounded to
\* 2 decimals
C9_Irregularity(stats, lengths) ==
  IsRoundedSqrt(Hundredths(stats.irregularityScore), 10000,
                SumSqTimesN(lengths), SumSeq(lengths))

\* C9 as stated: averageLength is the mean rounded to 2 decimals,
\* standardDeviation the root of the population variance rounded to 2 decimals,
\* irregularityScore is (standard deviation / mean) * 100 rounded to 2 decimals,
\* and lengths [28, 30, 26] give 28.00, 1.63 and 5.82.
C9_StatisticsAsStated ==
  (Returned /\ SurvivorLengths # <<>>) =>
    LET stats == report.result.value.statistics
        lengths == Lengths(cleanCycleData(cycleHistory))
    IN  /\ C9_AverageAndDeviation(stats, lengths)
        /\ C9_Irregularity(stats, lengths)
        /\ lengths = <<28, 30, 26>> => stats.irregularityScore = Rat(582, 100)

\* C9 amended: as stated, the ratio being taken of the unrounded standard
\* deviation and mean, so that lengths [28, 30, 26] give 28.00, 1.63 and 5.83.
C9_StatisticsUnroundedRatio ==
  (Returned /\ SurvivorLengths # <<>>) =>
    LET stats == report.result.value.statistics
        lengths == Lengths(cleanCycleData(cycleHistory))
    IN  /\ C9_AverageAndDeviation(stats, lengths)
        /\ C9_Irregularity(stats, lengths)
        /\ lengths = <<28, 30, 26>> => stats.irregularityScore = Rat(583, 100)

\* C9 witness: the report for lengths [28, 30, 26].
C9_Witness ==
  /\ Returned
  /\ Lengths(cycleHistory) = <<28, 30, 26>>
  /\ report.result.value.statistics.averageLength = RInt(28)
  /\ report.result.value.statistics.standardDeviation = Rat(163, 100)
  /\ report.result.value.statistics.irregularityScore = Rat(583, 100)

\* cycle i of the input lies more than 2 population standard deviations from the
\* mean of all lengths: (n * length - sum)^2 > 4 * (n * sum of squares - sum^2)
FarFromMean(i) ==
  LET lengths == Lengths(cycleHistory)
      d == Len(lengths) * lengths[i] - SumSeq(lengths)
  IN  d * d > 4 * SumSqTimesN(lengths)

OutlierEntry(i) ==
  [date |-> cycleHistory[i].start,
   length |-> cycleHistory[i].length,
   deviation |-> Rat(Len(cycleHistory) * cycleHistory[i].length
                       - SumSeq(Lengths(cycleHistory)),
                     Len(cycleHistory))]

\* C10: in a full-profile report for 6 or more cycles, patterns.outliers lists
\* exactly the cycles more than 2 population standard deviations from the mean of
\* all lengths, in input order, each as date, length and length - mean; none when
\* all lengths are equal; 7 cycles of 28 then one of 38 report the cycle of 38.
C10_OutliersBeyondTwoDeviations ==
  (Returned /\ report.op = "analyzeFullProfile" /\ Len(cycleHistory) >= 6) =>
    LET outliers == report.result.value.patterns.outliers
    IN  /\ \A k \in 1..Len(outliers) :
             \E i \in 1..Len(cycleHistory) :
               FarFromMean(i) /\ outliers[k] = OutlierEntry(i)
        /\ \A i \in 1..Len(cycleHistory) :
             FarFromMean(i) =>
               \E k \in 1..Len(outliers) : outliers[k] = OutlierEntry(i)
        /\ Len(outliers) = Cardinality({i \in 1..Len(cycleHistory) : FarFromMean(i)})
        /\ SumSqTimesN(Lengths(cycleHistory)) = 0 => outliers = <<>>
        /\ Lengths(cycleHistory) = <<28, 28, 28, 28, 28, 28, 28, 38>> =>
             outliers = <<OutlierEntry(8)>>

\* C10 witness: the full-profile report for 7 cycles of 28 followed by one of 38
\* lists the cycle of 38, 8.75 days above the mean.
C10_Witness ==
  /\ Returned
  /\ report.op = "analyzeFullProfile"
  /\ Lengths(cycleHistory) = <<28, 28, 28, 28, 28, 28, 28, 38>>
  /\ Len(report.result.value.patterns.outliers) = 1
  /\ report.result.value.patterns.outliers[1].length = 38
  /\ report.result.value.patterns.outliers[1].deviation = Rat(875, 100)

\* the input's lengths average 28.5
AveragesTwentyEightAndHalf ==
  Len(cycleHistory) > 0 /\ 2 * SumSeq(Lengths(cycleHistory)) = 57 * Len(cycleHistory)

\* a full-profile report for a history averaging 28.5
HealthScored ==
  Returned /\ report.op = "analyzeFullProfile" /\ AveragesTwentyEightAndHalf

\* the health score at average length 28.5 for a variance of k quarters
ScoreAt(k, count) == calculateHealthScore(Rat(57, 2), Rat(k, 4), count)

\* C11: with the average length held at 28.5 and the cycle count fixed, the
\* health score does not rise as the variance grows, and it is an integer within
\* [0, 100]: the reported score of a history averaging 28.5 is at least the score
\* at every larger variance and at most the score at every smaller one, and along
\* the grid of variances the score never increases, for every cycle count.
C11_HealthScoreNonIncreasing ==
  HealthScored =>
    LET score == report.result.value.cycleProfile.healthScore
        v == PopulationVariance(Lengths(cycleHistory))
        n == Len(cycleHistory)
    IN  /\ score \in 0..100
        /\ \A k \in 0..MaxVarianceQuarters :
             /\ RLe(v, Rat(k, 4)) => ScoreAt(k, n) <= score
             /\ RLe(Rat(k, 4), v) => score <= ScoreAt(k, n)
        /\ \A count \in 0..MaxCount : \A k \in 1..MaxVarianceQuarters :
             /\ ScoreAt(k, count) \in 0..100
             /\ ScoreAt(k, count) <= ScoreAt(k - 1, count)

\* C11 witness: two reported scores differ with the variance: a history of
\* 25, 32, 25, 32 (variance 12.25) scores 76, below the 100 of variance 0.25.
C11_Witness ==
  /\ HealthScored
  /\ Lengths(cycleHistory) = <<25, 32, 25, 32>>
  /\ report.result.value.cycleProfile.healthScore = 76
  /\ ScoreAt(1, 4) = 100

\* the fields of the report that analyzeCycles returns
EngineFields ==
  {"statistics", "predictions", "fertilityWindow", "recommendations", "confidence"}

\* what analyzeCycles returned in the call that produced the report
EngineReport ==
  IF report.result.type = "throw" THEN report.result
  ELSE Normal([f \in EngineFields |-> report.result.value[f]])

OutOfOrder == \E i \in 1..Len(cycleHistory) - 1 :
  cycleHistory[i].start > cycleHistory[i + 1].start

\* C13: analyzeCycles and analyzeFullProfile leave the caller's history as it
\* was: every step keeps the same records, with the same start and length, in
\* the same order, and the array that cleaning returns is the one reported on.
C13_InputUnchanged ==
  [][/\ cycleHistory' = cycleHistory
     /\ cleanCycleData_arrays(cycleHistory).chained = cleanCycleData(cycleHistory)]_vars

\* C13 witness: a report returned for an input that is out of order and holds a
\* record that cleaning drops, the input still being out of order.
C13_Witness ==
  /\ Returned
  /\ OutOfOrder
  /\ Survivors # {}
  /\ Cardinality(Survivors) < Len(cycleHistory)
  /\ cleanCycleData(cycleHistory) # cycleHistory

\* a full-profile report has been returned
Profiled == Returned /\ report.op = "analyzeFullProfile"

\* C14: in a full-profile report, patterns, riskAssessment and cycleProfile are
\* those of the cleaned history, so that records with a length outside [21, 35]
\* have no influence on them, and the profile counts the cycles the statistics
\* count.
C14_ProfileFromCleanedHistory ==
  Profiled =>
    LET cleanHistory == cleanCycleData(cycleHistory)
        value == report.result.value
    IN  /\ value.patterns = detectPatterns(cleanHistory)
        /\ value.riskAssessment = assessHealthRisks(cleanHistory, symptoms)
        /\ value.cycleProfile = createCycleProfile(cleanHistory)
        /\ Len(cleanHistory) > 0 =>
             value.cycleProfile.totalCycles = value.statistics.totalCycles

StatisticsFields ==
  {"averageLength", "standardDeviation", "irregularityScore", "totalCycles",
   "shortest", "longest", "trend", "dataQuality"}

\* a Statistics object with every field present and the zero-record defaults
ZeroRecordDefaults(stats) ==
  /\ DOMAIN stats = StatisticsFields
  /\ stats.averageLength = RInt(28)
  /\ stats.dataQuality = "insufficient"
  /\ stats.standardDeviation = RInt(0)
  /\ stats.irregularityScore = RInt(0)
  /\ stats.totalCycles = 0
  /\ stats.shortest = 0
  /\ stats.longest = 0
  /\ stats.trend = RInt(0)

\* C15: for zero records the Statistics object has every field: averageLength
\* 28, tier 'insufficient' and 0 in standardDeviation, irregularityScore,
\* totalCycles, shortest, longest and trend, in the no-history default report and
\* from calculateStatistics on an empty cleaned history.
C15_ZeroRecordStatisticsComplete ==
  (Returned /\ Len(cycleHistory) = 0) =>
    /\ ZeroRecordDefaults(report.result.value.statistics)
    /\ ZeroRecordDefaults(calculateStatistics(cleanCycleData(cycleHistory)))

\* the luteal length in force: the setting, 14 when it is absent
LutealInForce == IF settings.lutealLength = Absent THEN 14 ELSE settings.lutealLength

\* the report of the same call with the luteal length raised by k days
RaisedBy(k) ==
  analyzeCycles(cycleHistory, [settings EXCEPT !.lutealLength = LutealInForce + k],
                today).value

\* C16: for a non-empty history, the report with lutealLength raised by k days
\* has predictions.ovulationDate, predictions.lutealPhaseStart and the fertility
\* window's ovulationDate, windowStart and windowEnd exactly k days earlier, and
\* the same statistics, confidence, next start, estimated length and following
\* cycles; an absent lutealLength counts as 14.
C16_LutealLengthOnlyShifts ==
  (Returned /\ Len(cycleHistory) > 0) =>
    \A k \in 1..MaxShift :
      LET value == EngineReport.value
          raised == RaisedBy(k)
          shift == k * TICKS_PER_DAY
      IN  /\ raised.predictions.ovulationDate = value.predictions.ovulationDate - shift
          /\ raised.predictions.lutealPhaseStart = value.predictions.lutealPhaseStart - shift
          /\ raised.fertilityWindow.ovulationDate = value.fertilityWindow.ovulationDate - shift
          /\ raised.fertilityWindow.windowStart = value.fertilityWindow.windowStart - shift
          /\ raised.fertilityWindow.windowEnd = value.fertilityWindow.windowEnd - shift
          /\ raised.statistics = value.statistics
          /\ raised.confidence = value.confidence
          /\ raised.predictions.nextCycle = value.predictions.nextCycle
          /\ raised.predictions.following3Cycles = value.predictions.following3Cycles

\* C16 witness: a report made with lutealLength 12 whose ovulation date is two
\* days after the one the default of 14 gives.
C16_Witness ==
  /\ Returned
  /\ Len(cycleHistory) > 0
  /\ settings.lutealLength = 12
  /\ RaisedBy(2) = analyzeCycles(cycleHistory,
                                 [settings EXCEPT !.lutealLength = Absent], today).value
  /\ RaisedBy(2).predictions.ovulationDate
       = report.result.value.predictions.ovulationDate - 2 * TICKS_PER_DAY

\* the dates logged
LoggedDates == {parseKey(cycleLog[i]) : i \in 1..Len(cycleLog)}

LatestLogged == CHOOSE d \in LoggedDates : \A other \in LoggedDates : other <= d

EarliestLogged == CHOOSE d \in LoggedDates : \A other \in LoggedDates : d <= other

\* consecutive intervals add up to latest - earliest
AverageInterval ==
  MathRound(Rat(LatestLogged - EarliestLogged, Cardinality(LoggedDates) - 1))

\* the base cycle length: the rounded average of the logged intervals, else the
\* configured length, clamped to [20, 40]
BaseLength ==
  clamp(IF Cardinality(LoggedDates) >= 2 THEN AverageInterval ELSE getCycle(cycleCfg).len,
        20, 40)

\* C17: whenever the log is not empty, the next period shown is the latest
\* logged start date plus the base cycle length, and the next ovulation shown is
\* that date minus the luteal length; the configured start date plays no part.
C17_NextPeriodFromLatestStart ==
  Len(cycleLog) > 0 =>
    /\ summary.nextPeriod = toLocaleDateString(LatestLogged + BaseLength)
    /\ summary.nextOvul =
         toLocaleDateString(LatestLogged + BaseLength - getCycle(cycleCfg).luteal)

\* the input is a cleaned history: every record survives cleaning and the
\* records are in chronological order
CleanedInput ==
  /\ Len(cycleHistory) > 0
  /\ Survivors = 1..Len(cycleHistory)
  /\ ~OutOfOrder

\* a rational number of days, in date ticks
DaysInTicks(days) == (days[1] * TICKS_PER_DAY) \div days[2]

RecentLengths ==
  LET n == Len(cycleHistory)
      m == IF n < 6 THEN n ELSE 6
  IN  [i \in 1..m |-> cycleHistory[n - m + i].length]

RECURSIVE CenteredSum(_, _, _)
\* sum of (2 i - (m - 1)) * y[i] over the positions i = 0..m-1 from position i on
CenteredSum(y, i, m) ==
  IF y = <<>> THEN 0
  ELSE (2 * i - (m - 1)) * Head(y) + CenteredSum(Tail(y), i + 1, m)

\* the least-squares slope of length against index over the recent lengths,
\* covariance over variance of the index: 6 * sum / (m * (m^2 - 1)); 0 with fewer
\* than 3 cycles
LeastSquaresSlope ==
  LET m == Len(RecentLengths)
  IN  IF m < 3 THEN RInt(0)
      ELSE Rat(6 * CenteredSum(RecentLengths, 0, m), m * (m * m - 1))

\* averageLength + slope, rounded to an integer
RoundedAdjustedLength ==
  MathRound(RAdd(EngineReport.value.statistics.averageLength, LeastSquaresSlope))

C20_FollowingThreeCycles ==
  (Returned /\ Survivors # {}) =>
    LET value == EngineReport.value
        following == value.predictions.following3Cycles
        nextStart == value.predictions.nextCycle.startDate
        averageLength == value.statistics.averageLength
    IN  /\ Len(following) = 3
        /\ \A k \in 1..3 :
             /\ following[k].startDate = nextStart + k * DaysInTicks(averageLength)
             /\ following[k].estimatedLength = averageLength
        /\ nextStart < following[1].startDate
        /\ following[1].startDate < following[2].startDate
        /\ following[2].startDate < following[3].startDate

\* C20 witness: lengths 21, 28, 30 (average 26.33, next length estimated 31):
\* the following cycles start 26.33, 52.66 and 78.99 days after the next start.
C20_Witness ==
  /\ Returned
  /\ Lengths(cycleHistory) = <<21, 28, 30>>
  /\ report.result.value.predictions.nextCycle.estimatedLength = RInt(31)
  /\ report.result.value.predictions.following3Cycles[3].startDate
       = report.result.value.predictions.nextCycle.startDate + 7899
  /\ report.result.value.predictions.following3Cycles[3].estimatedLength = Rat(2633, 100)

\* C21: for every non-empty cleaned history, predictions.ovulationDate is the
\* next start plus (estimatedLength - lutealLength - 1) days and
\* predictions.lutealPhaseStart the next start plus (estimatedLength -
\* lutealLength) days, one day after the ovulation date.
C21_OvulationFromEstimatedLength ==
  (Returned /\ Survivors # {}) =>
    LET predictions == EngineReport.value.predictions
        nextStart == predictions.nextCycle.startDate
        ovulationDay == RSub(predictions.nextCycle.estimatedLength, RInt(LutealInForce))
    IN  /\ predictions.ovulationDate = nextStart + DaysInTicks(RSub(ovulationDay, RInt(1)))
        /\ predictions.lutealPhaseStart = nextStart + DaysInTicks(ovulationDay)
        /\ predictions.lutealPhaseStart = predictions.ovulationDate + TICKS_PER_DAY

\* C22: in every report returned, predictions.ovulationDate and
\* fertilityWindow.ovulationDate are the same date.
C22_OneOvulationDate ==
  Returned =>
    EngineReport.value.predictions.ovulationDate
      = EngineReport.value.fertilityWindow.ovulationDate

\* C23: on the no-history path the ovulation date is the predicted cycle's start
\* plus (28 - lutealLength - 1) days and the luteal phase starts at that start
\* plus (28 - lutealLength) days, lutealLength being the setting, 14 by default.
C23_DefaultUsesSameFormulas ==
  (Returned /\ Len(cycleHistory) = 0) =>
    LET predictions == EngineReport.value.predictions
        cycleStart == predictions.nextCycle.startDate
    IN  /\ predictions.ovulationDate
             = cycleStart + (28 - LutealInForce - 1) * TICKS_PER_DAY
        /\ predictions.lutealPhaseStart
             = cycleStart + (28 - LutealInForce) * TICKS_PER_DAY

\* the lengths of the cleaned history, oldest cycle first
CleanedLengths == Lengths(cleanCycleData(cycleHistory))

\* the sum of lengths[from..to]
SumRange(lengths, from, to) == SumSeq(SubSeq(lengths, from, to))

\* the trend of the halves of a series of lengths: the mean of
\* lengths[floor(n/2) .. n-1] minus the mean of lengths[0 .. floor(n/2)-1]
HalvesDifference(lengths) ==
  LET n == Len(lengths)
      half == n \div 2
  IN  RSub(Rat(SumRange(lengths, half + 1, n), n - half),
           Rat(SumRange(lengths, 1, half), half))

\* the statistics of the history whose lengths are those of the cleaned history
\* in reverse order
ReversedStatistics ==
  LET n == Len(CleanedLengths)
      reversed == [i \in 1..n |-> CleanedLengths[n + 1 - i]]
  IN  analyzeCycles(Series(reversed, 1), settings, today).value.statistics

\* C24: statistics.trend is 0 for fewer than 4 cleaned cycles; for n >= 4 it is
\* the mean of the later half of the lengths minus the mean of the earlier half,
\* the history split at floor(n/2) in ascending start order, so that reversing
\* a history of even length negates the trend.
C24_TrendOfHalves ==
  Returned =>
    LET statistics == EngineReport.value.statistics
        n == Len(CleanedLengths)
    IN  /\ "trend" \in DOMAIN statistics
        /\ n < 4 => statistics.trend = RInt(0)
        /\ n >= 4 => statistics.trend = HalvesDifference(CleanedLengths)
        /\ (n >= 4 /\ n % 2 = 0) =>
             ReversedStatistics.trend = RSub(RInt(0), statistics.trend)

\* the fields of a pattern report
PatternFields == {"seasonal", "trending", "cyclical", "outliers"}

\* C25: detectPatterns returns the insufficient-data marker and none of the
\* fields seasonal, trending, cyclical, outliers exactly when the history has
\* fewer than 6 cycles; with 6 or more it returns a report of all four fields
\* without the marker.
C25_InsufficientBelowSix ==
  Profiled =>
    LET patterns == report.result.value.patterns
        marked == DOMAIN patterns = {"insufficient_data"}
    IN  /\ marked <=> Len(cycleHistory) < 6
        /\ marked => patterns.insufficient_data = TRUE
        /\ Len(cycleHistory) >= 6 => DOMAIN patterns = PatternFields

\* C25 witness: a full-profile report for exactly 6 cycles carries the four
\* fields and no marker.
C25_Witness ==
  /\ Profiled
  /\ Len(cycleHistory) = 6
  /\ DOMAIN report.result.value.patterns = PatternFields

\* the mean of the last 6 lengths of the history minus the mean of all earlier
\* ones
RecentMinusEarlier ==
  LET lengths == Lengths(cycleHistory)
      n == Len(lengths)
  IN  RSub(Rat(SumRange(lengths, n - 5, n), 6),
           Rat(SumRange(lengths, 1, n - 6), n - 6))

\* C26: for a history of n >= 6 cycles patterns.trending is null exactly when
\* n = 6; otherwise, with difference the mean of the last 6 lengths minus the
\* mean of all earlier ones, direction is "lengthening" iff difference > 1,
\* "shortening" iff difference < -1 and "stable" otherwise, and significance is
\* "significant" iff |difference| > 2 and "minor" otherwise, so that a stable
\* trend is never significant.
C26_TrendingAgainstEarlier ==
  (Profiled /\ Len(cycleHistory) >= 6) =>
    LET trending == report.result.value.patterns.trending
        difference == RecentMinusEarlier
    IN  /\ trending = Null <=> Len(cycleHistory) = 6
        /\ Len(cycleHistory) > 6 =>
             /\ trending.direction \in {"lengthening", "shortening", "stable"}
             /\ trending.direction = "lengthening" <=> RLt(RInt(1), difference)
             /\ trending.direction = "shortening" <=> RLt(difference, RInt(-1))
             /\ trending.significance \in {"significant", "minor"}
             /\ trending.significance = "significant"
                  <=> RLt(RInt(2), RAbs(difference))
             /\ trending.direction = "stable" => trending.significance = "minor"

\* C26 witness: one cycle of 28 followed by five of 28 and one of 34: the recent
\* mean is exactly one day above the earlier one, which is stable and minor.
C26_Witness ==
  /\ Profiled
  /\ Lengths(cycleHistory) = <<28, 28, 28, 28, 28, 28, 34>>
  /\ RecentMinusEarlier = RInt(1)
  /\ report.result.value.patterns.trending
       = [direction |-> "stable", magnitude |-> RInt(1), significance |-> "minor"]

\* the mean of the lengths at the array indices of the given parity (index 0 is
\* the first cycle of the history)
ParityMean(parity) ==
  LET lengths == Lengths(cycleHistory)
      at == {i \in 1..Len(lengths) : (i - 1) % 2 = parity}
  IN  Rat(SumSeq([i \in 1..Len(lengths) |-> IF i \in at THEN lengths[i] ELSE 0]),
          Cardinality(at))

EvenMean == ParityMean(0)

OddMean == ParityMean(1)

\* C27: for 8 or more cycles patterns.cyclical.detected is true iff the means of
\* the even-indexed and of the odd-indexed lengths differ by more than 2, and
\* pattern names the parity whose mean is strictly longer: "even_longer" only
\* when the even mean is greater, "odd_longer" only when the odd mean is greater.
C27_NamedParityStrictlyLonger ==
  (Profiled /\ Len(cycleHistory) >= 8) =>
    LET cyclical == report.result.value.patterns.cyclical
    IN  /\ cyclical.detected <=> RLt(RInt(2), RAbs(RSub(EvenMean, OddMean)))
        /\ cyclical.pattern = "even_longer" => RLt(OddMean, EvenMean)
        /\ cyclical.pattern = "odd_longer" => RLt(EvenMean, OddMean)

\* the mean of the lengths of the history as passed
RawMean == Rat(SumSeq(Lengths(cycleHistory)), Len(cycleHistory))

\* the population variance of the lengths of the history as passed
RawVariance == PopulationVariance(Lengths(cycleHistory))

InsightTitles ==
  {"Very Short Cycles", "Very Long Cycles", "Irregular Cycles", "Severe Pain"}

\* C28: for a zero-length history generateHealthInsights returns exactly the one
\* informational "start tracking" insight, whatever the symptom flags; for a
\* non-empty history it emits "very short cycles" iff the mean length < 21,
\* "very long cycles" iff the mean length > 38, never both, "irregular cycles"
\* iff the population variance > 49, "severe pain" iff the severePain flag is
\* set, each once and nothing else.
C28_InsightRules ==
  Profiled =>
    LET insights == report.result.value.healthInsights
        titles == {insights[i].title : i \in 1..Len(insights)}
    IN  IF Len(cycleHistory) = 0
        THEN insights = <<[category |-> "tracking", severity |-> "info",
                           title |-> "Start Your Journey"]>>
        ELSE /\ "Very Short Cycles" \in titles <=> RLt(RawMean, RInt(21))
             /\ "Very Long Cycles" \in titles <=> RLt(RInt(38), RawMean)
             /\ ~({"Very Short Cycles", "Very Long Cycles"} \subseteq titles)
             /\ "Irregular Cycles" \in titles <=> RLt(RInt(49), RawVariance)
             /\ "Severe Pain" \in titles <=> symptoms.severePain
             /\ titles \subseteq InsightTitles
             /\ Len(insights) = Cardinality(titles)

\* C28 witness: cycles of 35 and 41 days with severe pain reported: the mean is
\* exactly 38 and the variance 9, and the only insight is the one for the pain.
C28_Witness ==
  /\ Profiled
  /\ Lengths(cycleHistory) = <<35, 41>>
  /\ symptoms.severePain
  /\ RawMean = RInt(38)
  /\ report.result.value.healthInsights
       = <<[category |-> "symptoms", severity |-> "warning", title |-> "Severe Pain"]>>

RiskConditions == {"PCOS", "thyroid_dysfunction", "hormonal_imbalance"}

\* C29: assessHealthRisks returns an empty list for a zero-length history;
\* otherwise the list contains PCOS iff the mean length > 35 or the variance > 64,
\* thyroid_dysfunction iff the mean length < 24 or > 38, and hormonal_imbalance
\* iff the variance > 36, each at most once and nothing else, so that PCOS raised
\* by a variance above 64 comes with hormonal_imbalance.
C29_RiskRules ==
  Profiled =>
    LET risks == report.result.value.riskAssessment
        conditions == {risks[i].condition : i \in 1..Len(risks)}
    IN  IF Len(cycleHistory) = 0
        THEN risks = <<>>
        ELSE /\ "PCOS" \in conditions
                  <=> (RLt(RInt(35), RawMean) \/ RLt(RInt(64), RawVariance))
             /\ "thyroid_dysfunction" \in conditions
                  <=> (RLt(RawMean, RInt(24)) \/ RLt(RInt(38), RawMean))
             /\ "hormonal_imbalance" \in conditions <=> RLt(RInt(36), RawVariance)
             /\ conditions \subseteq RiskConditions
             /\ Len(risks) = Cardinality(conditions)
             /\ ("PCOS" \in conditions /\ RLt(RInt(64), RawVariance))
                  => "hormonal_imbalance" \in conditions

\* C29 witness: cycles of 23 and 41 days: the mean is 32 and the variance 81, so
\* PCOS is raised by the variance alone, with hormonal_imbalance and without
\* thyroid_dysfunction.
C29_Witness ==
  /\ Profiled
  /\ Lengths(cycleHistory) = <<23, 41>>
  /\ RawMean = RInt(32)
  /\ RawVariance = RInt(81)
  /\ report.result.value.riskAssessment
       = <<[condition |-> "PCOS", risk |-> "moderate"],
           [condition |-> "hormonal_imbalance", risk |-> "moderate"]>>

\* C30: toggleLoggedStart(key) adds key to the stored log when absent, removes
\* it when present and changes no other entry, so that from the empty log a key
\* is in the log iff it was toggled an odd number of times; the log it stores has
\* no duplicate keys, and toggling the same key once more restores the log as it
\* was before.
C30_ToggleFlipsOneKey ==
  [][\A d \in ClickableDays :
       LET key == fmtKey(d)
       IN  ToggleLoggedStart(key) =>
             /\ key \in Elements(cycleLog') <=> key \notin Elements(cycleLog)
             /\ Elements(cycleLog') \ {key} = Elements(cycleLog) \ {key}
             /\ Len(cycleLog') = Cardinality(Elements(cycleLog'))
             /\ toggledLog(cycleLog', key) = cycleLog]_vars

\* C30 witness: 3 September and 1 October 2025 toggled once each and 29 October
\* not at all or twice: the log holds the two keys, "2025-10-1" first.
C30_Witness ==
  /\ cycleLog = <<fmtKey(273), fmtKey(245)>>
  /\ fmtKey(301) \notin Elements(cycleLog)
  /\ toggledLog(toggledLog(cycleLog, fmtKey(301)), fmtKey(301)) = cycleLog

====
